---- MODULE Spec2Model ----
(***************************************************************************)
(* Model of src/src/main.py: load_data builds a fixed pandas DataFrame,    *)
(* query_data opens a fresh in-memory DuckDB database, registers the       *)
(* DataFrame as relation t and runs                                        *)
(*   SELECT id, value, value*2 AS value2 FROM t                            *)
(*   WHERE value >= 20 ORDER BY id DESC                                    *)
(* Several invocations of query_data (one per caller in Calls) may be in   *)
(* flight at once; every source line of query_data is one step.            *)
(*                                                                         *)
(* Integer columns are int64 in the program.  The model keeps the shape of *)
(* a signed IntBits-bit integer type (range MinInt..MaxInt) with a small   *)
(* IntBits, so that products leaving the range are reachable.              *)
(***************************************************************************)
EXTENDS Integers, Sequences, FiniteSets

VARIABLES pc, df, con, result, raised, catalog

vars == <<pc, df, con, result, raised, catalog>>

(* ------------------------------ bounds -------------------------------- *)

\* longest caller-built input table
MaxRows == 2
\* width of the signed integer type of the columns
IntBits == 8

MaxInt == 2^(IntBits - 1) - 1
MinInt == -(2^(IntBits - 1))

\* callers that may each have one invocation of query_data in flight
Calls == {"a", "b"}

(* ------------------------ constants of the query ----------------------- *)

\* WHERE value >= 20
THRESH == 20
\* value*2
FACTOR == 2

\* ids and values of caller-built rows: the values lie just below, on and
\* just above the boundary of the filter
Ids == {1, 2}
Vals == {THRESH - 1, THRESH, THRESH + 1}

(* ----------------------------- data model ------------------------------ *)

\* Python's None
None == [none |-> TRUE]

Range(s) == {s[i] : i \in 1..Len(s)}

\* pd.DataFrame: ordered column names, a dtype per column, ordered rows
DataFrame(columns, dtypes, rows) ==
    [columns |-> columns, dtypes |-> dtypes, rows |-> rows]

IntFrame(rows) ==
    DataFrame(<<"id", "value">>, [id |-> "int64", value |-> "int64"], rows)

load_data_stale == IntFrame(<<[id |-> 1, value |-> 10], [id |-> 2, value |-> 20],
                             [id |-> 3, value |-> 30]>>)

\* load_data(): the literal of main.py line 6
load_data == IntFrame(<<[id |-> 1, value |-> 10], [id |-> 2, value |-> 20],
                        [id |-> 3, value |-> 30], [id |-> 4, value |-> 40]>>)

\* the largest value whose double still fits the integer type
HalfMax == MaxInt \div FACTOR

\* well-formed inputs a caller may build: integer id and value, any rows,
\* ids repeated or not; a frame with a further column; frames whose values
\* lie at the ends of the integer range
IntRows == [id : Ids, value : Vals]
ValidInputs ==
    {IntFrame(rows) : rows \in UNION {[1..n -> IntRows] : n \in 0..MaxRows}}
    \cup {DataFrame(<<"id", "value", "name">>,
                    [id |-> "int64", value |-> "int64", name |-> "object"],
                    <<[id |-> 1, value |-> THRESH, name |-> 7]>>)}
    \cup {IntFrame(<<[id |-> 1, value |-> HalfMax]>>),
          IntFrame(<<[id |-> 1, value |-> HalfMax + 1]>>),
          IntFrame(<<[id |-> 1, value |-> THRESH], [id |-> 2, value |-> MaxInt]>>),
          IntFrame(<<[id |-> 1, value |-> MinInt], [id |-> 2, value |-> THRESH]>>)}

\* inputs that break the query's schema: a column missing, or value holding
\* Python strings (an object column; the cell payload is kept as a number)
BadInputs ==
    { DataFrame(<<"id">>, [id |-> "int64"], <<[id |-> 1]>>),
      DataFrame(<<"value">>, [value |-> "int64"], <<[value |-> THRESH]>>),
      DataFrame(<<"id", "value">>, [id |-> "int64", value |-> "object"],
                <<[id |-> 1, value |-> THRESH]>>) }

Inputs == ValidInputs \cup BadInputs

(* --------------------------- the query engine -------------------------- *)

NumericDtypes == {"int64"}

\* binding the statement against relation t: the names id and value must
\* resolve, and value*2 / value >= 20 need a numeric value
BindError(t) ==
    \/ "id" \notin Range(t.columns)
    \/ "value" \notin Range(t.columns)
    \/ t.dtypes.value \notin NumericDtypes

WhereClauseStrict(r) == r.value > THRESH
WhereClauseLoose(r) == r.value >= THRESH - 1

\* WHERE value >= 20
WhereClause(r) == r.value >= THRESH

MultiplyTriple(v) == v * (FACTOR + 1)

MultiplyWrapping(v) == ((v * FACTOR - MinInt) % (2^IntBits)) + MinInt

\* value*2, as a mathematical integer
Multiply(v) == v * FACTOR

OverflowsNever(x) == FALSE

\* the engine's checked integer multiplication: a product outside the range
\* of the column's type raises instead of wrapping
Overflows(x) == x > MaxInt \/ x < MinInt

\* the select list: id, value, value*2 AS value2
Project(r) == [id |-> r.id, value |-> r.value, value2 |-> Multiply(r.value)]

ResultColumnsOfRows(rows) == IF rows = <<>> THEN <<>> ELSE <<"id", "value", "value2">>

\* names of the result columns, from the select list
ResultColumns(rows) == <<"id", "value", "value2">>

Injections(n) == {p \in [1..n -> 1..n] : \A i, j \in 1..n : i # j => p[i] # p[j]}

Arrangements(rows) ==
    {[i \in 1..Len(rows) |-> rows[p[i]]] : p \in Injections(Len(rows))}

OrderByIdAsc(rows) ==
    {s \in Arrangements(rows) : \A i \in 1..(Len(s) - 1) : s[i].id <= s[i + 1].id}

OrderByNothing(rows) == Arrangements(rows)

\* ORDER BY id DESC: every arrangement of the rows with non-increasing id;
\* SQL leaves the relative order of rows with equal id to the engine
OrderByIdDesc(rows) ==
    {s \in Arrangements(rows) : \A i \in 1..(Len(s) - 1) : s[i].id >= s[i + 1].id}

Table(rows) == [columns |-> ResultColumns(rows), rows |-> rows]

Ok(table) == [kind |-> "ok", table |-> table]
Error(name) == [kind |-> "error", error |-> name]

\* con.execute(...).df() on a database whose relation t is the frame t:
\* the set of outcomes the engine may produce
Execute(t) ==
    IF t = None THEN {Error("CatalogException")}
    ELSE IF BindError(t) THEN {Error("BinderException")}
    ELSE LET kept == SelectSeq(t.rows, WhereClause)
         IN  IF \E i \in 1..Len(kept) : Overflows(Multiply(kept[i].value))
             THEN {Error("OutOfRangeException")}
             ELSE {Ok(Table(s)) :
                     s \in OrderByIdDesc([i \in 1..Len(kept) |-> Project(kept[i])])}

(* ------------------------------ connections ---------------------------- *)

ConIds == 1..Cardinality(Calls)

Live == {con[c] : c \in Calls} \ {0}

duckdb_connect_shared == CHOOSE i \in ConIds : \A j \in ConIds : i <= j

\* duckdb.connect(): a new in-memory database, distinct from every open one
duckdb_connect == CHOOSE i \in ConIds : i \notin Live /\ \A j \in ConIds \ Live : i <= j

(* -------------------------------- actions ------------------------------ *)

Init ==
    /\ pc = [c \in Calls |-> "idle"]
    /\ df = [c \in Calls |-> None]
    /\ con = [c \in Calls |-> 0]
    /\ result = [c \in Calls |-> None]
    /\ raised = [c \in Calls |-> "none"]
    /\ catalog = [i \in ConIds |-> None]

\* main.py line 18: df = load_data()
LoadData(c) ==
    /\ pc[c] = "idle"
    /\ pc' = [pc EXCEPT ![c] = "loaded"]
    /\ df' = [df EXCEPT ![c] = load_data]
    /\ UNCHANGED <<con, result, raised, catalog>>

\* query_data is entered with the frame of load_data (main.py line 20) or
\* with a frame the caller built (tests/test_main.py lines 25-28, 55-57);
\* line 10: con = duckdb.connect() opens a new, empty database
Connect(c) ==
    /\ pc[c] \in {"idle", "loaded"}
    /\ \E d \in (IF pc[c] = "loaded" THEN {df[c]} ELSE Inputs) :
         df' = [df EXCEPT ![c] = d]
    /\ con' = [con EXCEPT ![c] = duckdb_connect]
    /\ catalog' = [catalog EXCEPT ![duckdb_connect] = None]
    /\ pc' = [pc EXCEPT ![c] = "connected"]
    /\ UNCHANGED <<result, raised>>

\* query_data line 12: con.register("t", df)
Register(c) ==
    /\ pc[c] = "connected"
    /\ catalog' = [catalog EXCEPT ![con[c]] = df[c]]
    /\ pc' = [pc EXCEPT ![c] = "registered"]
    /\ UNCHANGED <<df, con, result, raised>>

\* query_data lines 14-15: result = con.execute(...).df(); return result.
\* An exception of the engine propagates to the caller and nothing is
\* returned.  Either way the frame's connection and its database are dropped.
ExecuteQuery(c) ==
    /\ pc[c] = "registered"
    /\ \E o \in Execute(catalog[con[c]]) :
         \/ /\ o.kind = "ok"
            /\ result' = [result EXCEPT ![c] = o.table]
            /\ pc' = [pc EXCEPT ![c] = "returned"]
            /\ UNCHANGED raised
         \/ /\ o.kind = "error"
            /\ raised' = [raised EXCEPT ![c] = o.error]
            /\ pc' = [pc EXCEPT ![c] = "raised"]
            /\ UNCHANGED result
    /\ catalog' = [catalog EXCEPT ![con[c]] = None]
    /\ con' = [con EXCEPT ![c] = 0]
    /\ UNCHANGED df

\* the caller is done with the outcome (main.py line 21) and may call again
Discard(c) ==
    /\ pc[c] \in {"returned", "raised"}
    /\ pc' = [pc EXCEPT ![c] = "idle"]
    /\ df' = [df EXCEPT ![c] = None]
    /\ result' = [result EXCEPT ![c] = None]
    /\ raised' = [raised EXCEPT ![c] = "none"]
    /\ UNCHANGED <<con, catalog>>

Next ==
    \E c \in Calls :
        \/ LoadData(c)
        \/ Connect(c)
        \/ Register(c)
        \/ ExecuteQuery(c)
        \/ Discard(c)

Spec == Init /\ [][Next]_vars

(* ------------------------- vocabulary of the claims -------------------- *)

Returned(c) == pc[c] = "returned"
Raised(c) == pc[c] = "raised"
Finished(c) == Returned(c) \/ Raised(c)

HasColumn(d, name) == \E i \in 1..Len(d.columns) : d.columns[i] = name

\* the input has the columns id and value, and value is an integer column
SchemaOk(d) ==
    /\ HasColumn(d, "id")
    /\ HasColumn(d, "value")
    /\ d.dtypes.value = "int64"

\* positions of the input rows the filter retains
Retained(d) == {i \in 1..Len(d.rows) : d.rows[i].value >= 20}

\* some retained row's doubled value leaves the integer range
DoubleLeavesRange(d) == \E i \in Retained(d) : d.rows[i].value * 2 > MaxInt

Count(s, x) == Cardinality({i \in 1..Len(s) : s[i] = x})

IdValue(r) == [id |-> r.id, value |-> r.value]

IdValues(rows) == [i \in 1..Len(rows) |-> IdValue(rows[i])]

ThreeColumns == <<"id", "value", "value2">>

ScenarioA == [columns |-> <<"id", "value">>,
              dtypes |-> [id |-> "int64", value |-> "int64"],
              rows |-> <<[id |-> 1, value |-> 10], [id |-> 2, value |-> 20],
                         [id |-> 3, value |-> 30], [id |-> 4, value |-> 40]>>]

(* --------------------------------- claims ------------------------------ *)

\* C1: every row of a table returned by query_data has value >= 20.
C1_ValueAtLeastThreshold ==
    \A c \in Calls :
        Returned(c) =>
            \A i \in 1..Len(result[c].rows) : result[c].rows[i].value >= 20

\* a table with rows was returned for an input that also had a row below 20
C1_Witness ==
    \E c \in Calls :
        /\ Returned(c)
        /\ result[c].rows # <<>>
        /\ \E i \in 1..Len(df[c].rows) : df[c].rows[i].value < 20

\* C2: the returned rows are exactly the input rows with value >= 20, each
\* once and with id and value unchanged; so there are at most as many rows
\* as in the input, and the input id=[1,2,3,4], value=[10,20,30,40] gives
\* exactly 3 rows with ids {2,3,4}.
C2_ExactlyTheRetainedRows ==
    \A c \in Calls :
        Returned(c) =>
            LET out == IdValues(result[c].rows)
                inp == IdValues(df[c].rows)
            IN  /\ \A x \in Range(out) \cup Range(inp) :
                      Count(out, x) = (IF x.value >= 20 THEN Count(inp, x) ELSE 0)
                /\ Len(out) <= Len(inp)
                /\ df[c] = ScenarioA =>
                      /\ Len(out) = 3
                      /\ {out[i].id : i \in 1..Len(out)} = {2, 3, 4}

\* one call returned the 3 rows of scenario A while another, on an input of
\* two rows, dropped one and kept the row whose value is exactly 20
C2_Witness ==
    \E c, k \in Calls :
        /\ Returned(c) /\ df[c] = ScenarioA /\ Len(result[c].rows) = 3
        /\ Returned(k) /\ Len(df[k].rows) = 2 /\ Len(result[k].rows) = 1
        /\ result[k].rows[1].value = 20

\* C3: in every returned row value2 is twice that row's value.
C3_Value2IsDouble ==
    \A c \in Calls :
        Returned(c) =>
            \A i \in 1..Len(result[c].rows) :
                result[c].rows[i].value2 = result[c].rows[i].value * 2

\* a returned table with the rows value 40 / value2 80 and value 20 / value2 40
C3_Witness ==
    \E c \in Calls :
        /\ Returned(c)
        /\ \E i, j \in 1..Len(result[c].rows) :
              /\ result[c].rows[i].value = 40 /\ result[c].rows[i].value2 = 80
              /\ result[c].rows[j].value = 20 /\ result[c].rows[j].value2 = 40

\* C4: the id column of every returned table is non-increasing.
C4_IdDescending ==
    \A c \in Calls :
        Returned(c) =>
            \A i \in 1..(Len(result[c].rows) - 1) :
                result[c].rows[i].id >= result[c].rows[i + 1].id

\* a returned table of several rows whose input had its ids strictly ascending
C4_Witness ==
    \E c \in Calls :
        /\ Returned(c)
        /\ Len(result[c].rows) >= 2
        /\ result[c].rows[1].id > result[c].rows[Len(result[c].rows)].id
        /\ \A i \in 1..(Len(df[c].rows) - 1) : df[c].rows[i].id < df[c].rows[i + 1].id

\* C5: for an input of integer id and value with no rows, or with no row of
\* value >= 20, query_data raises nothing and returns a table of zero rows
\* with the columns id, value, value2.
C5_EmptyResultKeepsColumns ==
    \A c \in Calls :
        (Finished(c) /\ SchemaOk(df[c]) /\ Retained(df[c]) = {}) =>
            /\ Returned(c)
            /\ raised[c] = "none"
            /\ result[c].rows = <<>>
            /\ result[c].columns = ThreeColumns

\* one call returned the empty table for an input without rows, another for
\* an input whose rows are all below 20
C5_Witness ==
    \E c, k \in Calls :
        /\ Returned(c) /\ df[c].rows = <<>> /\ result[c].rows = <<>>
        /\ Returned(k) /\ df[k].rows # <<>> /\ result[k].rows = <<>>
        /\ result[k].columns = ThreeColumns

\* C6: whatever calls came before, load_data returns the columns id, value
\* in that order and the rows (1,10), (2,20), (3,30), (4,40) in that order.
C6_LoadDataFixed ==
    \A c \in Calls :
        pc[c] = "loaded" =>
            /\ df[c].columns = <<"id", "value">>
            /\ df[c].rows = <<[id |-> 1, value |-> 10], [id |-> 2, value |-> 20],
                              [id |-> 3, value |-> 30], [id |-> 4, value |-> 40]>>

\* load_data has just returned to one caller while the other caller holds
\* the outcome of a query_data call on a different frame
C6_Witness ==
    \E c, k \in Calls :
        /\ pc[c] = "loaded"
        /\ Finished(k) /\ df[k] # df[c]

C8_Isolated ==
    \A c \in Calls :
        /\ pc[c] = "registered" => catalog[con[c]] = df[c]
        /\ pc[c] \in {"connected", "registered"} =>
              \A k \in Calls \ {c} : con[k] # con[c]
        /\ Returned(c) => Ok(result[c]) \in Execute(df[c])
        /\ Raised(c) => Error(raised[c]) \in Execute(df[c])

\* a call returned its own result after another call, on a different input,
\* connected and registered while the first held its connection
C8_Witness ==
    \E c, k \in Calls :
        /\ Returned(c) /\ result[c].rows # <<>>
        /\ pc[k] = "registered" /\ con[k] = 2
        /\ SchemaOk(df[k]) /\ df[k] # df[c] /\ Retained(df[k]) = {}

\* C9 as stated: the call raises and returns nothing when id or value is
\* missing or value is not numeric; otherwise it returns the complete table.
C9_Original ==
    \A c \in Calls :
        Finished(c) =>
            IF ~SchemaOk(df[c])
            THEN Raised(c) /\ raised[c] # "none" /\ result[c] = None
            ELSE /\ Returned(c) /\ raised[c] = "none"
                 /\ result[c].columns = ThreeColumns
                 /\ Len(result[c].rows) = Cardinality(Retained(df[c]))

\* C9 amended: the call raises and returns nothing when id or value is
\* missing, value is not numeric, or the double of a retained row's value is
\* outside the range of the column's integer type; otherwise it returns the
\* complete table.
C9_AtomicOutcome ==
    \A c \in Calls :
        Finished(c) =>
            IF ~SchemaOk(df[c]) \/ DoubleLeavesRange(df[c])
            THEN Raised(c) /\ raised[c] # "none" /\ result[c] = None
            ELSE /\ Returned(c) /\ raised[c] = "none"
                 /\ result[c].columns = ThreeColumns
                 /\ Len(result[c].rows) = Cardinality(Retained(df[c]))

\* one call raised on an input without the value column while the other
\* raised on an input whose second retained row doubles out of range
C9_Witness ==
    \E c, k \in Calls :
        /\ Raised(c) /\ ~HasColumn(df[c], "value") /\ result[c] = None
        /\ Raised(k) /\ SchemaOk(df[k]) /\ Len(df[k].rows) = 2
        /\ df[k].rows[1].value = 20 /\ df[k].rows[2].value * 2 > MaxInt
        /\ result[k] = None

\* value * 2 reduced into MinInt..MaxInt, as two's-complement arithmetic of
\* IntBits bits gives it
Wrapped(x) == ((x - MinInt) % (2^IntBits)) + MinInt

\* C10 as stated: when a retained row's value * 2 is outside the range of
\* the column's integer type, the table is returned with value2 wrapped
\* around modulo 2^w.
C10_Original ==
    \A c \in Calls :
        (Finished(c) /\ SchemaOk(df[c]) /\ DoubleLeavesRange(df[c])) =>
            /\ Returned(c)
            /\ \A i \in 1..Len(result[c].rows) :
                  result[c].rows[i].value2 = Wrapped(result[c].rows[i].value * 2)

\* C10 amended: when a retained row's value * 2 is outside the range of the
\* column's integer type, query_data raises the engine's out-of-range error
\* and returns no table; value2 is neither wrapped nor widened.
C10_OverflowRaises ==
    \A c \in Calls :
        (Finished(c) /\ SchemaOk(df[c]) /\ DoubleLeavesRange(df[c])) =>
            /\ Raised(c)
            /\ raised[c] = "OutOfRangeException"
            /\ result[c] = None

\* a call raised the out-of-range error on a one-row input whose value is
\* the smallest one with a double above MaxInt
C10_Witness ==
    \E c \in Calls :
        /\ Raised(c) /\ raised[c] = "OutOfRangeException"
        /\ Len(df[c].rows) = 1
        /\ df[c].rows[1].value * 2 = MaxInt + 1

====
